---- MODULE Spec2Model ----
(***************************************************************************)
(* State-synchronisation layer of the cryptoTrade browser client:          *)
(*   - tradingSlice   (openOrders / orderHistory reducers)                 *)
(*   - marketSlice    (tickers, recentTrades reducers)                     *)
(*   - WebSocketService (transport, subscription registry, replay)         *)
(* Each slice is checked under its own specification; the variables of the *)
(* other slices stay at their initial value there.                         *)
(***************************************************************************)
EXTENDS Integers, Sequences, FiniteSets, TLC

VARIABLES
    openOrders,      \* tradingSlice state.openOrders   (array, index 1 = front)
    orderHistory,    \* tradingSlice state.orderHistory (array, index 1 = front)
    orderOp,         \* the tradingSlice action dispatched in the last step, if recorded
    tickers,         \* marketSlice state.tickers: symbol -> Ticker (a JS object)
    recentTrades,    \* marketSlice state.recentTrades (array, index 1 = front)
    tickerEvents,    \* the ticker events dispatched so far, in dispatch order
    tradesFed,       \* number of trade events the server has produced so far
    fetchTrades,     \* fetchRecentTrades thunk: "idle", "pending", "fulfilled"
    restResponse,    \* the REST response in flight (<<"none">> or <<"trades", payload>>)
    streamSub,       \* the trade feed of the symbol is subscribed at the server
    streamQueue,     \* 'trade' events in transit on the socket (FIFO)
    streamDelivered, \* ids of the trades the 'trade' handler has dispatched
    socket,          \* WebSocketService.socket: 0 is null, k the transport in slot k
    socks,           \* the transports io() has created that still exist, by slot
    subscribedChannels,  \* WebSocketService.subscribedChannels (Set of keys)
    reconnectAttempts,   \* WebSocketService.reconnectAttempts
    token,           \* localStorage holds an access_token
    lastCall,        \* the method of the service the last step called, if it was a call
    scenario,        \* position in the documented reconnect scenario (-1 once left)
    scenarioSent,    \* subscribe messages for the ETH_USDT market received during it
    balances,        \* walletSlice state.balances (array, index 1 = front)
    walletOp,        \* the balance event applied in the last step, if recorded
    orderBook,       \* marketSlice state.orderBook
    inbound,         \* events the transport has delivered that await their handler
    arrived,         \* every event the transport has delivered, in arrival order
    selectedPair,    \* the Trade view's selectedPair ("none": the view is not mounted)
    restPending,     \* the snapshot requests that have not settled
    marketSubs,      \* the symbols the view has subscribed to and not unsubscribed from
    fetchResult,     \* what the snapshot thunk settled last returned to its caller
    navigations,     \* how many times selectedPair has been set
    viewSubs,        \* per view, the symbols it has subscribed to and not unsubscribed from
    srvOrders,       \* the status the server holds for each order id ("none": not created)
    restOrders       \* trading requests awaiting the server and responses in flight

tradingVars == <<openOrders, orderHistory, orderOp>>
marketVars == <<tickers, recentTrades, tickerEvents, tradesFed, fetchTrades,
                restResponse, streamSub, streamQueue, streamDelivered>>

wsVars == <<socket, socks, subscribedChannels, reconnectAttempts, token, lastCall>>
scenarioVars == <<scenario, scenarioSent>>

walletVars == <<balances, walletOp>>

eventVars == <<inbound, arrived>>
bookVars == <<orderBook>>
viewVars == <<selectedPair, restPending, marketSubs, fetchResult, navigations, viewSubs>>
raceVars == <<srvOrders, restOrders>>

\* the state the later sections add
appVars == <<walletVars, eventVars, bookVars, viewVars, raceVars>>

vars == <<tradingVars, marketVars, wsVars, scenarioVars, appVars>>

(***************************************************************************)
(* Generic array helpers (JavaScript Array methods, 1-based here).         *)
(***************************************************************************)

\* Array.prototype.unshift(x): x becomes the first element.
Unshift(arr, x) == <<x>> \o arr

\* Array.prototype.splice(i, 1): remove the element at position i.
Splice1(arr, i) == SubSeq(arr, 1, i - 1) \o SubSeq(arr, i + 1, Len(arr))

\* Array.prototype.pop(): remove the last element.
Pop(arr) == SubSeq(arr, 1, Len(arr) - 1)

\* Array.prototype.findIndex on an id: the first position whose id matches;
\* 0 here stands for JavaScript's -1 (positions are 1-based).
FindIndexById(arr, id) ==
    IF \E i \in 1..Len(arr) : arr[i].id = id
    THEN CHOOSE i \in 1..Len(arr) :
            /\ arr[i].id = id
            /\ \A j \in 1..(i - 1) : arr[j].id # id
    ELSE 0

\* the array holds an entry with this id (findIndex(...) >= 0)
IdIn(arr, id) == \E i \in 1..Len(arr) : arr[i].id = id

\* Array.prototype.filter(o => o.id !== id)
RECURSIVE FilterOutId(_, _)
FilterOutId(arr, id) ==
    IF arr = <<>> THEN <<>>
    ELSE IF Head(arr).id = id THEN FilterOutId(Tail(arr), id)
         ELSE <<Head(arr)>> \o FilterOutId(Tail(arr), id)

(***************************************************************************)
(* tradingSlice                                                            *)
(***************************************************************************)

MaxOpen == 2        \* bound on Len(openOrders)
MaxHistory == 2     \* bound on Len(orderHistory)

OrderIds == {7, 8}
Statuses == {"open", "partially_filled", "filled", "cancelled"}
FilledAmounts == {"0", "1.0"}

\* interface Order, reduced to the fields the reducers read (id, status) and
\* one payload field that tells two events for the same order apart.
Orders == [id : OrderIds, status : Statuses, filled_amount : FilledAmounts]

TerminalStatus(s) == s = "cancelled" \/ s = "filled"
OpenStatus(s) == s \in {"open", "partially_filled"}

\* updateOrder whose splice has no delete count: it cuts the list at index
updateOrderOpen_SpliceTail(open, order) ==
    LET index == FindIndexById(open, order.id) IN
    IF TerminalStatus(order.status)
    THEN IF index >= 1 THEN SubSeq(open, 1, index - 1) ELSE open
    ELSE IF index >= 1 THEN [open EXCEPT ![index] = order]
    ELSE open

\* updateOrder that overwrites the entry in place whatever the status
updateOrderOpen_ReplaceAlways(open, order) ==
    LET index == FindIndexById(open, order.id) IN
    IF index >= 1 THEN [open EXCEPT ![index] = order] ELSE open

\* reducers.updateOrder: the new value of state.openOrders
updateOrderOpen(open, order) ==
    LET index == FindIndexById(open, order.id) IN
    IF TerminalStatus(order.status)
    THEN IF index >= 1 THEN Splice1(open, index) ELSE open
    ELSE IF index >= 1 THEN [open EXCEPT ![index] = order]
    ELSE open

\* updateOrder that records a terminal event twice
updateOrderHistory_Twice(hist, order) ==
    IF TerminalStatus(order.status) THEN Unshift(Unshift(hist, order), order) ELSE hist

\* updateOrder that appends a terminal event to the end of the history
updateOrderHistory_Push(hist, order) ==
    IF TerminalStatus(order.status) THEN Append(hist, order) ELSE hist

\* reducers.updateOrder: the new value of state.orderHistory
updateOrderHistory(hist, order) ==
    IF TerminalStatus(order.status) THEN Unshift(hist, order) ELSE hist

\* addOrder without the status test
addOrderOpen_NoStatusCheck(open, order) == Unshift(open, order)

\* reducers.addOrder and createOrder.fulfilled (same body)
addOrderOpen(open, order) ==
    IF OpenStatus(order.status) THEN Unshift(open, order) ELSE open

\* cancelOrder.fulfilled
cancelOrderOpen(open, order) == FilterOutId(open, order.id)

InitTrading ==
    /\ openOrders = <<>>
    /\ orderHistory = <<>>
    /\ orderOp = [op |-> "none", id |-> 0, status |-> "none", filled_amount |-> "0",
                  wasOpen |-> FALSE, wasHistory |-> FALSE]

InitMarket ==
    /\ tickers = <<>>
    /\ recentTrades = <<>>
    /\ tickerEvents = <<>>
    /\ tradesFed = 0
    /\ fetchTrades = "idle"
    /\ restResponse = <<"none">>
    /\ streamSub = FALSE
    /\ streamQueue = <<>>
    /\ streamDelivered = {}

updateOrder(order) ==
    /\ TerminalStatus(order.status) => Len(orderHistory) < MaxHistory
    /\ openOrders' = updateOrderOpen(openOrders, order)
    /\ orderHistory' = updateOrderHistory(orderHistory, order)
    /\ UNCHANGED <<marketVars, wsVars, scenarioVars, appVars>>

addOrder(order) ==
    /\ OpenStatus(order.status) => Len(openOrders) < MaxOpen
    /\ openOrders' = addOrderOpen(openOrders, order)
    /\ orderHistory' = orderHistory
    /\ UNCHANGED <<marketVars, wsVars, scenarioVars, appVars>>

createOrderFulfilled(order) ==
    /\ OpenStatus(order.status) => Len(openOrders) < MaxOpen
    /\ openOrders' = addOrderOpen(openOrders, order)
    /\ orderHistory' = orderHistory
    /\ UNCHANGED <<marketVars, wsVars, scenarioVars, appVars>>

cancelOrderFulfilled(order) ==
    /\ openOrders' = cancelOrderOpen(openOrders, order)
    /\ orderHistory' = orderHistory
    /\ UNCHANGED <<marketVars, wsVars, scenarioVars, appVars>>

\* a rejected cancel that removes the order all the same
cancelOrderRejectedOpen_Remove(open, orderId) == FilterOutId(open, orderId)

\* a rejected createOrder / cancelOrder: extraReducers has no case for it,
\* so the slice's state is the one it was
createOrderRejectedOpen(open) == open
cancelOrderRejectedOpen(open, orderId) == open

\* createOrder.rejected (the REST call failed)
createOrderRejected ==
    /\ openOrders' = createOrderRejectedOpen(openOrders)
    /\ orderHistory' = orderHistory
    /\ UNCHANGED <<marketVars, wsVars, scenarioVars, appVars>>

\* cancelOrder.rejected (the REST call failed)
cancelOrderRejected(orderId) ==
    /\ openOrders' = cancelOrderRejectedOpen(openOrders, orderId)
    /\ orderHistory' = orderHistory
    /\ UNCHANGED <<marketVars, wsVars, scenarioVars, appVars>>

UpdateOrderStep == \E order \in Orders : updateOrder(order)
AddOrderStep == \E order \in Orders : addOrder(order)
CreateOrderFulfilledStep == \E order \in Orders : createOrderFulfilled(order)
CancelOrderFulfilledStep == \E order \in Orders : cancelOrderFulfilled(order)

NextOrders ==
    \/ UpdateOrderStep /\ UNCHANGED orderOp
    \/ AddOrderStep /\ UNCHANGED orderOp
    \/ CreateOrderFulfilledStep /\ UNCHANGED orderOp
    \/ CancelOrderFulfilledStep /\ UNCHANGED orderOp

\* no tradingSlice action has been recorded
NoOrderOp == [op |-> "none", id |-> 0, status |-> "none", filled_amount |-> "0",
              wasOpen |-> FALSE, wasHistory |-> FALSE]

\* the record of an action: its type, its payload's order and whether the
\* order's id was in openOrders / orderHistory when it was dispatched
OrderOp(op, order) ==
    [op |-> op, id |-> order.id, status |-> order.status,
     filled_amount |-> order.filled_amount,
     wasOpen |-> IdIn(openOrders, order.id),
     wasHistory |-> IdIn(orderHistory, order.id)]

\* the payload of a recorded action
OpOrder(rec) == [id |-> rec.id, status |-> rec.status, filled_amount |-> rec.filled_amount]

\* a rejected command carries no order: createOrder's request has no id yet,
\* cancelOrder's argument is the order id
NoOrder == [id |-> 0, status |-> "none", filled_amount |-> "0"]
CancelArg(orderId) == [id |-> orderId, status |-> "none", filled_amount |-> "0"]

\* the payloads of the recorded runs: the reducers read id and status only,
\* so one filled_amount is kept there
OpOrders == {order \in Orders : order.filled_amount = "0"}

\* the four reducers over the payloads of the recorded runs, not recorded
NextContainers ==
    \/ \E order \in OpOrders : updateOrder(order) /\ UNCHANGED orderOp
    \/ \E order \in OpOrders : addOrder(order) /\ UNCHANGED orderOp
    \/ \E order \in OpOrders : createOrderFulfilled(order) /\ UNCHANGED orderOp
    \/ \E order \in OpOrders : cancelOrderFulfilled(order) /\ UNCHANGED orderOp

\* the same reducers and the rejected commands, each dispatch recorded
NextOrderOps ==
    \/ \E order \in OpOrders :
          updateOrder(order) /\ orderOp' = OrderOp("updateOrder", order)
    \/ \E order \in OpOrders :
          addOrder(order) /\ orderOp' = OrderOp("addOrder", order)
    \/ \E order \in OpOrders :
          createOrderFulfilled(order) /\ orderOp' = OrderOp("createOrder.fulfilled", order)
    \/ \E order \in OpOrders :
          cancelOrderFulfilled(order) /\ orderOp' = OrderOp("cancelOrder.fulfilled", order)
    \/ createOrderRejected /\ orderOp' = OrderOp("createOrder.rejected", NoOrder)
    \/ \E orderId \in OrderIds :
          cancelOrderRejected(orderId)
          /\ orderOp' = OrderOp("cancelOrder.rejected", CancelArg(orderId))

(***************************************************************************)
(* marketSlice: tickers                                                    *)
(***************************************************************************)

MaxTickerEvents == 2    \* bound on the number of ticker events dispatched

TickerSymbols == {"BTC_USDT", "ETH_USDT"}
TickerValues == {"1", "2"}

\* interface Ticker
Tickers == [symbol : TickerSymbols, last_price : TickerValues,
            price_change_24h : TickerValues, high_24h : TickerValues,
            low_24h : TickerValues, volume_24h : TickerValues]

\* state.tickers[key] = value on a JS object: the key is added or overwritten
SetKey(obj, key, value) ==
    [k \in (DOMAIN obj) \cup {key} |-> IF k = key THEN value ELSE obj[k]]

\* updateTicker as a field-wise merge that lets the stored record's fields win
updateTickerReducer_MergeOld(tks, payload) ==
    IF payload.symbol \in DOMAIN tks
    THEN SetKey(tks, payload.symbol,
                [payload EXCEPT !.high_24h = tks[payload.symbol].high_24h,
                                !.low_24h = tks[payload.symbol].low_24h])
    ELSE SetKey(tks, payload.symbol, payload)

\* reducers.updateTicker
updateTickerReducer(tks, payload) == SetKey(tks, payload.symbol, payload)

updateTicker(payload) ==
    /\ Len(tickerEvents) < MaxTickerEvents
    /\ tickers' = updateTickerReducer(tickers, payload)
    /\ tickerEvents' = Append(tickerEvents, payload)
    /\ UNCHANGED <<recentTrades, tradesFed, fetchTrades, restResponse,
                   streamSub, streamQueue, streamDelivered>>
    /\ UNCHANGED <<tradingVars, wsVars, scenarioVars, appVars>>

UpdateTickerStep == \E payload \in Tickers : updateTicker(payload)

NextTicker == UpdateTickerStep

(***************************************************************************)
(* marketSlice: recentTrades fed by the stream alone                       *)
(***************************************************************************)

TapeCap == 100      \* the length addRecentTrade trims to
MaxFeed == 150      \* bound on the number of trade events fed

\* interface RecentTrade; the k-th event the server produces has id k
TradeEvent(k) == [id |-> k, price |-> "1", amount |-> "1", timestamp |-> k]

\* addRecentTrade trimming with >= instead of >
addRecentTradeReducer_OffByOne(trades, payload) ==
    LET unshifted == Unshift(trades, payload) IN
    IF Len(unshifted) >= TapeCap THEN Pop(unshifted) ELSE unshifted

\* reducers.addRecentTrade
addRecentTradeReducer(trades, payload) ==
    LET unshifted == Unshift(trades, payload) IN
    IF Len(unshifted) > TapeCap THEN Pop(unshifted) ELSE unshifted

\* the socket's 'trade' handler dispatching addRecentTrade for the next event
FeedTrade ==
    /\ tradesFed < MaxFeed
    /\ tradesFed' = tradesFed + 1
    /\ recentTrades' = addRecentTradeReducer(recentTrades, TradeEvent(tradesFed + 1))
    /\ UNCHANGED <<tickers, tickerEvents, fetchTrades, restResponse,
                   streamSub, streamQueue, streamDelivered>>
    /\ UNCHANGED <<tradingVars, wsVars, scenarioVars, appVars>>

NextTape == FeedTrade

(***************************************************************************)
(* marketSlice: recentTrades fed by the REST snapshot and the stream        *)
(* (the view's effect dispatches fetchRecentTrades(symbol) and then calls  *)
(* wsService.subscribeToMarket(symbol); the HTTP response and the socket's *)
(* 'trade' events travel on different connections)                         *)
(***************************************************************************)

MaxTrades == 3      \* bound on the trades the server produces in this run

\* the k newest trades, newest first: the payload of GET /market/trades
RECURSIVE NewestFirst(_)
NewestFirst(k) == IF k = 0 THEN <<>> ELSE <<TradeEvent(k)>> \o NewestFirst(k - 1)

\* useEffect on selectedPair: dispatch(fetchRecentTrades), subscribeToMarket
ViewSelectPair ==
    /\ fetchTrades = "idle"
    /\ fetchTrades' = "pending"
    /\ streamSub' = TRUE
    /\ UNCHANGED <<tickers, tickerEvents, recentTrades, tradesFed, restResponse,
                   streamQueue, streamDelivered>>
    /\ UNCHANGED <<tradingVars, wsVars, scenarioVars, appVars>>

\* the backend executes a trade; subscribers of the feed get a 'trade' event
ServerTrade ==
    /\ tradesFed < MaxTrades
    /\ tradesFed' = tradesFed + 1
    /\ streamQueue' = IF streamSub
                      THEN Append(streamQueue, TradeEvent(tradesFed + 1))
                      ELSE streamQueue
    /\ UNCHANGED <<tickers, tickerEvents, recentTrades, fetchTrades, restResponse,
                   streamSub, streamDelivered>>
    /\ UNCHANGED <<tradingVars, wsVars, scenarioVars, appVars>>

\* the backend answers GET /market/trades/<symbol> with the trades so far
ServerAnswerTrades ==
    /\ fetchTrades = "pending"
    /\ restResponse = <<"none">>
    /\ restResponse' = <<"trades", NewestFirst(tradesFed)>>
    /\ UNCHANGED <<tickers, tickerEvents, recentTrades, tradesFed, fetchTrades,
                   streamSub, streamQueue, streamDelivered>>
    /\ UNCHANGED <<tradingVars, wsVars, scenarioVars, appVars>>

\* fetchRecentTrades.fulfilled: the new value of state.recentTrades
fetchRecentTradesFulfilledReducer(trades, payload) == payload

\* the HTTP response arrives: fetchRecentTrades.fulfilled is dispatched
FetchRecentTradesFulfilled ==
    /\ fetchTrades = "pending"
    /\ restResponse[1] = "trades"
    /\ recentTrades' = fetchRecentTradesFulfilledReducer(recentTrades, restResponse[2])
    /\ fetchTrades' = "fulfilled"
    /\ UNCHANGED <<tickers, tickerEvents, tradesFed, restResponse,
                   streamSub, streamQueue, streamDelivered>>
    /\ UNCHANGED <<tradingVars, wsVars, scenarioVars, appVars>>

\* the socket's 'trade' handler: dispatch(addRecentTrade(data))
OnTrade ==
    /\ streamQueue # <<>>
    /\ recentTrades' = addRecentTradeReducer(recentTrades, Head(streamQueue))
    /\ streamQueue' = Tail(streamQueue)
    /\ streamDelivered' = streamDelivered \cup {Head(streamQueue).id}
    /\ UNCHANGED <<tickers, tickerEvents, tradesFed, fetchTrades, restResponse,
                   streamSub>>
    /\ UNCHANGED <<tradingVars, wsVars, scenarioVars, appVars>>

NextSnapshot ==
    \/ ViewSelectPair
    \/ ServerTrade
    \/ ServerAnswerTrades
    \/ FetchRecentTradesFulfilled
    \/ OnTrade

(***************************************************************************)
(* marketSlice: recentTrades under REST replacements of any length          *)
(***************************************************************************)

MaxPayload == 101   \* bound on the length of a GET /market/trades response
MaxStreamed == 2    \* bound on the trades streamed in this run

\* fetchRecentTrades.fulfilled with a response of n trades
RestReplace(n) ==
    /\ recentTrades' = fetchRecentTradesFulfilledReducer(recentTrades, NewestFirst(n))
    /\ UNCHANGED <<tickers, tickerEvents, tradesFed, fetchTrades, restResponse,
                   streamSub, streamQueue, streamDelivered>>
    /\ UNCHANGED <<tradingVars, wsVars, scenarioVars, appVars>>

\* the 'trade' handler dispatching addRecentTrade for a trade newer than
\* any the responses hold
StreamTrade ==
    /\ tradesFed < MaxStreamed
    /\ tradesFed' = tradesFed + 1
    /\ recentTrades' = addRecentTradeReducer(recentTrades,
                                             TradeEvent(MaxPayload + tradesFed + 1))
    /\ UNCHANGED <<tickers, tickerEvents, fetchTrades, restResponse,
                   streamSub, streamQueue, streamDelivered>>
    /\ UNCHANGED <<tradingVars, wsVars, scenarioVars, appVars>>

RestReplaceStep == \E n \in 0..MaxPayload : RestReplace(n)

NextTapeRest ==
    \/ RestReplaceStep
    \/ StreamTrade

(***************************************************************************)
(* walletSlice                                                             *)
(***************************************************************************)

MaxBalances == 2    \* bound on Len(balances)

Currencies == {"BTC", "USDT"}
BalanceValues == {"0", "1"}

\* interface Balance
Balances == [currency : Currencies, available : BalanceValues,
             locked : BalanceValues, total : BalanceValues]

\* balances.findIndex((b) => b.currency === currency); 0 stands for -1
FindIndexByCurrency(arr, currency) ==
    IF \E i \in 1..Len(arr) : arr[i].currency = currency
    THEN CHOOSE i \in 1..Len(arr) :
            /\ arr[i].currency = currency
            /\ \A j \in 1..(i - 1) : arr[j].currency # currency
    ELSE 0

\* updateBalance that pushes without looking for the currency
updateBalanceReducer_AlwaysPush(bals, payload) == Append(bals, payload)

\* reducers.updateBalance
updateBalanceReducer(bals, payload) ==
    LET index == FindIndexByCurrency(bals, payload.currency) IN
    IF index >= 1 THEN [bals EXCEPT ![index] = payload] ELSE Append(bals, payload)

\* no balance event has been recorded
NoWalletOp == [op |-> "none", currency |-> "none", wasPresent |-> FALSE]

InitWallet ==
    /\ balances = <<>>
    /\ walletOp = NoWalletOp

\* the socket's 'balance_update' handler dispatching updateBalance
updateBalance(payload) ==
    /\ Len(balances) < MaxBalances
          \/ FindIndexByCurrency(balances, payload.currency) >= 1
    /\ balances' = updateBalanceReducer(balances, payload)
    /\ walletOp' = [op |-> "updateBalance", currency |-> payload.currency,
                    wasPresent |-> FindIndexByCurrency(balances, payload.currency) >= 1]
    /\ UNCHANGED <<tradingVars, marketVars, wsVars, scenarioVars, eventVars, bookVars, viewVars,
                   raceVars>>

UpdateBalanceStep == \E payload \in Balances : updateBalance(payload)

NextWallet == UpdateBalanceStep

(***************************************************************************)
(* Inbound events: the listeners setupEventListeners registers              *)
(*                                                                         *)
(* socket.io calls the listeners of an event's name, one event at a time,  *)
(* in the order the events arrive; each listener dispatches synchronously. *)
(***************************************************************************)

MaxArrived == 3     \* bound on the events the transport delivers in a run

\* interface OrderBook, reduced to whose book it is and which revision
Book(symbol, rev) == [symbol |-> symbol, rev |-> rev]

\* { bids: [], asks: [] }
EmptyBook == Book("none", 0)

\* reducers.updateOrderBook
updateOrderBookReducer(book, payload) == payload

\* the event names a listener is registered for
RegisteredEvents ==
    {"ticker", "orderbook", "trade", "order_update", "balance_update", "notification"}

Event(name, data) == [name |-> name, data |-> data]

\* the events of the runs: two tickers for one symbol, a book, a trade, an
\* order event, a balance event, a notification and two events of names no
\* listener is registered for
RunEvents ==
    {Event("ticker", [symbol |-> "BTC_USDT", last_price |-> v, price_change_24h |-> "1",
                      high_24h |-> "1", low_24h |-> "1", volume_24h |-> "1"]) :
        v \in TickerValues}
    \cup {Event("orderbook", Book("BTC_USDT", 1)),
          Event("trade", TradeEvent(1)),
          Event("order_update", [id |-> 7, status |-> "filled", filled_amount |-> "1.0"]),
          Event("balance_update", [currency |-> "BTC", available |-> "1",
                                   locked |-> "0", total |-> "1"]),
          Event("notification", "text"),
          Event("depth", Book("BTC_USDT", 2)),
          Event("orderbook_snapshot", Book("ETH_USDT", 1))}

\* a listener installed for every event name, applying it as a book event
HandlerOf_CatchAll(name) == IF name \in RegisteredEvents THEN name ELSE "orderbook"

\* the listener socket.io finds for an event name ("none": no listener)
HandlerOf(name) == IF name \in RegisteredEvents THEN name ELSE "none"

\* the stores the listeners dispatch to
Stores ==
    [tickers |-> tickers, orderBook |-> orderBook, recentTrades |-> recentTrades,
     openOrders |-> openOrders, orderHistory |-> orderHistory, balances |-> balances]

\* the stores after the listener of one event has run
ApplyEvent(st, ev) ==
    LET handler == HandlerOf(ev.name) IN
    CASE handler = "ticker" ->
            [st EXCEPT !.tickers = updateTickerReducer(@, ev.data)]
      [] handler = "orderbook" ->
            [st EXCEPT !.orderBook = updateOrderBookReducer(@, ev.data)]
      [] handler = "trade" ->
            [st EXCEPT !.recentTrades = addRecentTradeReducer(@, ev.data)]
      [] handler = "order_update" ->
            [st EXCEPT !.openOrders = updateOrderOpen(@, ev.data),
                       !.orderHistory = updateOrderHistory(@, ev.data)]
      [] handler = "balance_update" ->
            [st EXCEPT !.balances = updateBalanceReducer(@, ev.data)]
      [] OTHER -> st

\* the position of the queued event whose listener runs next: the oldest
NextIndex_Newest(queue) == Len(queue)
NextIndex(queue) == 1

\* an event joins the events awaiting their listener
Enqueue(ev) ==
    /\ Len(arrived) < MaxArrived
    /\ arrived' = Append(arrived, ev)
    /\ inbound' = Append(inbound, ev)

\* the transport delivers an event to the client
Arrive(ev) ==
    /\ Enqueue(ev)
    /\ UNCHANGED <<tradingVars, marketVars, wsVars, scenarioVars, walletVars, bookVars, viewVars,
                   raceVars>>

\* the listener of the next queued event runs
DeliverEvent ==
    /\ inbound # <<>>
    /\ LET i == NextIndex(inbound)
           st == ApplyEvent(Stores, inbound[i])
       IN /\ inbound' = Splice1(inbound, i)
          /\ tickers' = st.tickers
          /\ orderBook' = st.orderBook
          /\ recentTrades' = st.recentTrades
          /\ openOrders' = st.openOrders
          /\ orderHistory' = st.orderHistory
          /\ balances' = st.balances
    /\ UNCHANGED <<orderOp, walletOp, arrived>>
    /\ UNCHANGED <<tickerEvents, tradesFed, fetchTrades, restResponse, streamSub,
                   streamQueue, streamDelivered>>
    /\ UNCHANGED <<wsVars, scenarioVars, viewVars, raceVars>>

ArriveStep == \E ev \in RunEvents : Arrive(ev)

NextEvents ==
    \/ ArriveStep
    \/ DeliverEvent

InitEvents ==
    /\ inbound = <<>>
    /\ arrived = <<>>
    /\ orderBook = EmptyBook

(***************************************************************************)
(* The Trade view: the effect on selectedPair and the snapshot thunks       *)
(*                                                                         *)
(* The socket is taken as connected, so a subscription reaches the server  *)
(* when it is made. A request settles when its HTTP response arrives.      *)
(***************************************************************************)

\* the two pages that subscribe to the market of their selectedPair
Views == {"Trade", "TradeBinance"}

MaxNavigations == 2  \* bound on the times the view sets selectedPair
MaxViewEvents == 2   \* bound on the events streamed to the view

ViewSymbols == {"BTC_USDT", "ETH_USDT"}

\* what GET /market/orderbook/<symbol> answers, and the book a streamed
\* 'orderbook' event for the symbol carries
SnapshotBook(symbol) == Book(symbol, 1)
StreamedBook(symbol) == Book(symbol, 2)

\* the trade of a symbol (a RecentTrade does not name its symbol: the id tells)
SymbolTrade(symbol) == TradeEvent(IF symbol = "BTC_USDT" THEN 1 ELSE 2)
TradeSymbol(trade) == IF trade.id = 1 THEN "BTC_USDT" ELSE "ETH_USDT"

\* what GET /market/trades/<symbol> answers
SnapshotTrades(symbol) == <<SymbolTrade(symbol)>>

SnapshotKinds == {"orderbook", "trades"}

\* a dispatched fetchOrderBook(symbol) or fetchRecentTrades(symbol)
Request(kind, symbol) == [kind |-> kind, symbol |-> symbol]

\* fetchResult: the request settled last, its result, and whether the caller
\* has dispatched that request again since it was rejected
NoFetchResult ==
    [kind |-> "none", symbol |-> "none", result |-> "none", retried |-> FALSE]

\* the action the thunk of a request returns to its caller
Settled(req, result) ==
    [kind |-> req.kind, symbol |-> req.symbol, result |-> result,
     retried |-> /\ fetchResult.retried
                 /\ fetchResult.kind = req.kind
                 /\ fetchResult.symbol = req.symbol]

\* extraReducers: fetchOrderBook.fulfilled
fetchOrderBookFulfilledReducer(book, payload) == payload

\* a rejected case that resets the book
fetchRejectedBook_Clear(book) == EmptyBook

\* extraReducers has no case for a rejected thunk: the state stays as it is
fetchRejectedBook(book) == book
fetchRejectedTrades(trades) == trades

\* selectedPair changes to symbol: the cleanup of the previous effect runs
\* (unsubscribeFromMarket), then the effect: fetchOrderBook and
\* fetchRecentTrades are dispatched and subscribeToMarket is called
SelectPair(symbol) ==
    /\ symbol # selectedPair
    /\ navigations < MaxNavigations
    /\ navigations' = navigations + 1
    /\ selectedPair' = symbol
    /\ restPending' = restPending \cup {Request(kind, symbol) : kind \in SnapshotKinds}
    /\ marketSubs' = (marketSubs \ {selectedPair}) \cup {symbol}
    /\ UNCHANGED <<fetchResult, viewSubs>>
    /\ UNCHANGED <<tradingVars, marketVars, wsVars, scenarioVars, walletVars, eventVars,
                   bookVars, raceVars>>

\* the response of a request arrives with status 200
FetchFulfilled(req) ==
    /\ req \in restPending
    /\ restPending' = restPending \ {req}
    /\ fetchResult' = Settled(req, "fulfilled")
    /\ orderBook' = IF req.kind = "orderbook"
                    THEN fetchOrderBookFulfilledReducer(orderBook, SnapshotBook(req.symbol))
                    ELSE orderBook
    /\ recentTrades' = IF req.kind = "trades"
                       THEN fetchRecentTradesFulfilledReducer(recentTrades,
                                                              SnapshotTrades(req.symbol))
                       ELSE recentTrades
    /\ UNCHANGED <<tickers, tickerEvents, tradesFed, fetchTrades, restResponse, streamSub,
                   streamQueue, streamDelivered>>
    /\ UNCHANGED <<selectedPair, marketSubs, navigations, viewSubs>>
    /\ UNCHANGED <<tradingVars, wsVars, scenarioVars, walletVars, eventVars, raceVars>>

\* the request fails: the thunk returns rejectWithValue(...)
FetchRejected(req) ==
    /\ req \in restPending
    /\ restPending' = restPending \ {req}
    /\ fetchResult' = Settled(req, "rejected")
    /\ orderBook' = fetchRejectedBook(orderBook)
    /\ recentTrades' = fetchRejectedTrades(recentTrades)
    /\ UNCHANGED <<tickers, tickerEvents, tradesFed, fetchTrades, restResponse, streamSub,
                   streamQueue, streamDelivered>>
    /\ UNCHANGED <<selectedPair, marketSubs, navigations, viewSubs>>
    /\ UNCHANGED <<tradingVars, wsVars, scenarioVars, walletVars, eventVars, raceVars>>

\* the caller of a rejected thunk dispatches it again
RetryFetch ==
    /\ fetchResult.result = "rejected"
    /\ ~fetchResult.retried
    /\ restPending' = restPending \cup {Request(fetchResult.kind, fetchResult.symbol)}
    /\ fetchResult' = [fetchResult EXCEPT !.retried = TRUE]
    /\ UNCHANGED <<selectedPair, marketSubs, navigations, viewSubs>>
    /\ UNCHANGED <<tradingVars, marketVars, wsVars, scenarioVars, walletVars, eventVars,
                   bookVars, raceVars>>

\* the server streams a book or a trade of a subscribed symbol
StreamBook(symbol) ==
    /\ symbol \in marketSubs
    /\ Len(arrived) < MaxViewEvents
    /\ Arrive(Event("orderbook", StreamedBook(symbol)))

StreamSymbolTrade(symbol) ==
    /\ symbol \in marketSubs
    /\ Len(arrived) < MaxViewEvents
    /\ Arrive(Event("trade", SymbolTrade(symbol)))

SelectPairStep == \E symbol \in ViewSymbols : SelectPair(symbol)
FetchFulfilledStep == \E req \in restPending : FetchFulfilled(req)
FetchRejectedStep == \E req \in restPending : FetchRejected(req)
StreamBookStep == \E symbol \in ViewSymbols : StreamBook(symbol)
StreamSymbolTradeStep == \E symbol \in ViewSymbols : StreamSymbolTrade(symbol)

NextView ==
    \/ SelectPairStep
    \/ FetchFulfilledStep
    \/ FetchRejectedStep
    \/ RetryFetch
    \/ StreamBookStep
    \/ StreamSymbolTradeStep
    \/ DeliverEvent

InitView ==
    /\ selectedPair = "none"
    /\ restPending = {}
    /\ marketSubs = {}
    /\ fetchResult = NoFetchResult
    /\ navigations = 0
    /\ viewSubs = [view \in Views |-> {}]

(***************************************************************************)
(* Orders over REST and over the stream                                    *)
(*                                                                         *)
(* The server creates, fills and cancels orders; it answers a request when *)
(* it handles it and streams an order_update when an order leaves the open *)
(* set. Responses and events travel independently of each other.           *)
(***************************************************************************)

\* the order of an id as the server reports it
ServerOrder(id, status) == [id |-> id, status |-> status, filled_amount |-> "0"]

RECURSIVE OpenListFrom(_, _)
OpenListFrom(srv, ids) ==
    IF ids = {} THEN <<>>
    ELSE LET id == CHOOSE i \in ids : \A j \in ids : i <= j
         IN (IF OpenStatus(srv[id]) THEN <<ServerOrder(id, srv[id])>> ELSE <<>>)
            \o OpenListFrom(srv, ids \ {id})

\* what GET /trading/orders/open answers
ServerOpenList(srv) == OpenListFrom(srv, OrderIds)

\* requests and responses of the trading thunks, with the orders they carry
ListRequest == [kind |-> "listRequest", orders |-> <<>>]
Response(kind, orders) == [kind |-> kind, orders |-> orders]

\* extraReducers: fetchOpenOrders.fulfilled
fetchOpenOrdersFulfilledReducer(open, payload) == payload

\* onBuySubmit / onSellSubmit: createOrder is dispatched and the server
\* creates the order
SubmitOrder(id) ==
    /\ srvOrders[id] = "none"
    /\ srvOrders' = [srvOrders EXCEPT ![id] = "open"]
    /\ restOrders' = restOrders \cup {Response("create", <<ServerOrder(id, "open")>>)}
    /\ UNCHANGED <<tradingVars, marketVars, wsVars, scenarioVars, walletVars, eventVars,
                   bookVars, viewVars>>

\* the createOrder response arrives: createOrder.fulfilled, then the handler
\* dispatches fetchOpenOrders
CreateOrderResponse(resp) ==
    /\ resp \in restOrders
    /\ resp.kind = "create"
    /\ openOrders' = addOrderOpen(openOrders, resp.orders[1])
    /\ restOrders' = (restOrders \ {resp}) \cup {ListRequest}
    /\ UNCHANGED <<orderHistory, orderOp, srvOrders>>
    /\ UNCHANGED <<marketVars, wsVars, scenarioVars, walletVars, eventVars, bookVars,
                   viewVars>>

\* the server handles GET /trading/orders/open
ServerAnswerList ==
    /\ ListRequest \in restOrders
    /\ restOrders' = (restOrders \ {ListRequest})
                        \cup {Response("list", ServerOpenList(srvOrders))}
    /\ UNCHANGED <<tradingVars, marketVars, wsVars, scenarioVars, walletVars, eventVars,
                   bookVars, viewVars, srvOrders>>

\* the list response arrives: fetchOpenOrders.fulfilled
FetchOpenOrdersResponse(resp) ==
    /\ resp \in restOrders
    /\ resp.kind = "list"
    /\ openOrders' = fetchOpenOrdersFulfilledReducer(openOrders, resp.orders)
    /\ restOrders' = restOrders \ {resp}
    /\ UNCHANGED <<orderHistory, orderOp, srvOrders>>
    /\ UNCHANGED <<marketVars, wsVars, scenarioVars, walletVars, eventVars, bookVars,
                   viewVars>>

\* handleCancel on an order the view lists: cancelOrder is dispatched; the
\* server cancels an open order, answers and streams the update, and
\* rejects the request for an order that is no longer open
CancelOrder(id) ==
    /\ IdIn(openOrders, id)
    /\ Response("cancel", <<ServerOrder(id, "cancelled")>>) \notin restOrders
    /\ IF OpenStatus(srvOrders[id])
       THEN /\ srvOrders' = [srvOrders EXCEPT ![id] = "cancelled"]
            /\ restOrders' = restOrders
                                \cup {Response("cancel", <<ServerOrder(id, "cancelled")>>)}
            /\ Enqueue(Event("order_update", ServerOrder(id, "cancelled")))
       ELSE /\ srvOrders[id] # "cancelled"
            /\ restOrders' = restOrders
                                \cup {Response("cancelRejected",
                                               <<ServerOrder(id, srvOrders[id])>>)}
            /\ UNCHANGED <<srvOrders, eventVars>>
    /\ UNCHANGED <<tradingVars, marketVars, wsVars, scenarioVars, walletVars, bookVars,
                   viewVars>>

\* the cancelOrder response arrives: cancelOrder.fulfilled, then the
\* handler dispatches fetchOpenOrders
CancelOrderResponse(resp) ==
    /\ resp \in restOrders
    /\ resp.kind = "cancel"
    /\ openOrders' = cancelOrderOpen(openOrders, resp.orders[1])
    /\ restOrders' = (restOrders \ {resp}) \cup {ListRequest}
    /\ UNCHANGED <<orderHistory, orderOp, srvOrders>>
    /\ UNCHANGED <<marketVars, wsVars, scenarioVars, walletVars, eventVars, bookVars,
                   viewVars>>

\* the cancelOrder request fails: cancelOrder.rejected has no case (the
\* rejected command is recorded)
CancelOrderRejectedResponse(resp) ==
    /\ resp \in restOrders
    /\ resp.kind = "cancelRejected"
    /\ openOrders' = cancelOrderRejectedOpen(openOrders, resp.orders[1].id)
    /\ orderOp' = OrderOp("cancelOrderRejected", CancelArg(resp.orders[1].id))
    /\ restOrders' = restOrders \ {resp}
    /\ UNCHANGED <<orderHistory, srvOrders>>
    /\ UNCHANGED <<marketVars, wsVars, scenarioVars, walletVars, eventVars, bookVars,
                   viewVars>>

\* the matching engine fills a part of an open order and the server
\* streams the update
ServerPartialFill(id) ==
    /\ srvOrders[id] = "open"
    /\ srvOrders' = [srvOrders EXCEPT ![id] = "partially_filled"]
    /\ Enqueue(Event("order_update", ServerOrder(id, "partially_filled")))
    /\ UNCHANGED restOrders
    /\ UNCHANGED <<tradingVars, marketVars, wsVars, scenarioVars, walletVars, bookVars,
                   viewVars>>

\* the matching engine fills an open order and the server streams the update
ServerFill(id) ==
    /\ OpenStatus(srvOrders[id])
    /\ srvOrders' = [srvOrders EXCEPT ![id] = "filled"]
    /\ Enqueue(Event("order_update", ServerOrder(id, "filled")))
    /\ UNCHANGED restOrders
    /\ UNCHANGED <<tradingVars, marketVars, wsVars, scenarioVars, walletVars, bookVars,
                   viewVars>>

SubmitOrderStep == \E id \in OrderIds : SubmitOrder(id)
CreateOrderResponseStep == \E resp \in restOrders : CreateOrderResponse(resp)
FetchOpenOrdersResponseStep == \E resp \in restOrders : FetchOpenOrdersResponse(resp)
CancelOrderStep == \E id \in OrderIds : CancelOrder(id)
CancelOrderResponseStep == \E resp \in restOrders : CancelOrderResponse(resp)
CancelOrderRejectedResponseStep == \E resp \in restOrders : CancelOrderRejectedResponse(resp)
ServerPartialFillStep == \E id \in OrderIds : ServerPartialFill(id)
ServerFillStep == \E id \in OrderIds : ServerFill(id)

NextOrderRace ==
    \/ SubmitOrderStep
    \/ CreateOrderResponseStep
    \/ ServerAnswerList
    \/ FetchOpenOrdersResponseStep
    \/ CancelOrderStep
    \/ CancelOrderResponseStep
    \/ CancelOrderRejectedResponseStep
    \/ ServerPartialFillStep
    \/ ServerFillStep
    \/ DeliverEvent

InitOrderRace ==
    /\ srvOrders = [id \in OrderIds |-> "none"]
    /\ restOrders = {}

(***************************************************************************)
(* WebSocketService                                                        *)
(*                                                                         *)
(* Strings that the service cuts at '_' are sequences of pieces, the       *)
(* underscore being a piece of its own: "BTC_USDT" is <<"BTC","_","USDT">>. *)
(* The channel arrays of subscribe/unsubscribe and of the messages are     *)
(* sets: nothing in the service depends on their order.                    *)
(***************************************************************************)

MaxSockets == 2     \* bound on the transports that exist at a time
MaxErrors == 7      \* bound on reconnectAttempts (it grows with every connect_error)
MaxReceived == 3    \* bound on the messages the server receives on one connection
MaxBuffered == 2    \* bound on the packets buffered in one transport

maxReconnectAttempts == 5

BTC_USDT == <<"BTC", "_", "USDT">>
ETH_USDT == <<"ETH", "_", "USDT">>
Symbols == {BTC_USDT, ETH_USDT}
ChannelTypes == {<<"ticker">>, <<"orderbook">>, <<"trades">>}

\* { type: string; symbol: string }
Channels == [type : ChannelTypes, symbol : Symbols]
Channel(type, symbol) == [type |-> <<type>>, symbol |-> symbol]

\* `${channel.type}_${channel.symbol}`
ChannelKey(channel) == channel.type \o <<"_">> \o channel.symbol

\* String.prototype.split(sep): the pieces between the separators
RECURSIVE SplitFrom(_, _, _)
SplitFrom(str, sep, piece) ==
    IF str = <<>> THEN <<piece>>
    ELSE IF Head(str) = sep
         THEN <<piece>> \o SplitFrom(Tail(str), sep, <<>>)
         ELSE SplitFrom(Tail(str), sep, Append(piece, Head(str)))

Split(str, sep) == SplitFrom(str, sep, <<>>)

\* const [type, symbol] = key.split('_'); return { type, symbol }
KeyToChannel(key) ==
    LET parts == Split(key, "_") IN [type |-> parts[1], symbol |-> parts[2]]

\* the three channels subscribeToMarket / unsubscribeFromMarket name
MarketChannels(symbol) ==
    {Channel("ticker", symbol), Channel("orderbook", symbol), Channel("trades", symbol)}

\* channel lists the callers pass to subscribe / unsubscribe directly
DirectChannelLists ==
    {{Channel("ticker", BTC_USDT)},
     {Channel("ticker", BTC_USDT), Channel("orderbook", BTC_USDT)}}

\* the symbol the trade views select
MarketSymbols == {ETH_USDT}

\* a transport as io() returns it (socket.io-client Socket and its Manager):
\*   status     "connecting" | "connected" | "reconnecting" | "closed"
\*   attempts   reconnection attempts the manager has started in this cycle
\*   sendBuffer packets emitted while not connected, sent on the next connect
\*   received   what the server has received on the transport's connection
\*   listeners  how many times setupEventListeners has run on it
NewSocket == [status |-> "connecting", attempts |-> 0, sendBuffer |-> <<>>,
              received |-> <<>>, listeners |-> 1]

\* a slot that holds no transport: none created yet, or the one it held was
\* closed and is referenced by nothing any more
NoSocket == [status |-> "none", attempts |-> 0, sendBuffer |-> <<>>, received |-> <<>>,
             listeners |-> 0]

Slots == 1..MaxSockets
FreeSlots == {k \in Slots : socks[k].status = "none"}
LowestFreeSlot == CHOOSE k \in FreeSlots : \A j \in FreeSlots : k <= j

\* no method of the service was called in the last step
NoCall == [op |-> "none", channels |-> {}]

\* the last step was a call of connect()
ConnectCall == [op |-> "connect", channels |-> {}]

\* the last step was a call of disconnect(), made with these channels' keys
\* in the registry
DisconnectCall(registry) ==
    [op |-> "disconnect", channels |-> {c \in Channels : ChannelKey(c) \in registry}]

Message(kind, channels) == [kind |-> kind, channels |-> channels]

\* socket.emit on transport j: sent if connected, buffered otherwise
Emit(sks, j, m) ==
    IF sks[j].status = "connected"
    THEN [sks EXCEPT ![j].received = Append(@, m)]
    ELSE [sks EXCEPT ![j].sendBuffer = Append(@, m)]

WithinBounds(sks) ==
    \A j \in Slots : /\ Len(sks[j].received) <= MaxReceived
                     /\ Len(sks[j].sendBuffer) <= MaxBuffered

\* authenticate that does not look at the token
authenticate_NoTokenCheck(sks) ==
    IF socket # 0 THEN Emit(sks, socket, Message("authenticate", {})) ELSE sks

\* WebSocketService.authenticate
authenticate(sks) ==
    IF token /\ socket # 0 THEN Emit(sks, socket, Message("authenticate", {})) ELSE sks

\* WebSocketService.resubscribe
resubscribe(sks) ==
    IF socket = 0 \/ Cardinality(subscribedChannels) = 0 THEN sks
    ELSE Emit(sks, socket,
              Message("subscribe", {KeyToChannel(key) : key \in subscribedChannels}))

\* subscribe that removes a key it finds already present
subscribeKeys_Toggle(registry, channels) ==
    (registry \ {ChannelKey(c) : c \in channels})
        \cup ({ChannelKey(c) : c \in channels} \ registry)

\* subscribe: the registry after the forEach
subscribeKeys(registry, channels) == registry \cup {ChannelKey(c) : c \in channels}

\* unsubscribe: the registry after the forEach
unsubscribeKeys(registry, channels) == registry \ {ChannelKey(c) : c \in channels}

\* this.socket?.connected
SocketConnected == IF socket = 0 THEN FALSE ELSE socks[socket].status = "connected"

\* WebSocketService.connect
\* (a closed transport that this.socket no longer references is dropped)
connect ==
    /\ ~SocketConnected
    /\ IF socket # 0 /\ socks[socket].status = "closed"
       THEN /\ socks' = [socks EXCEPT ![socket] = NewSocket]
            /\ socket' = socket
       ELSE /\ FreeSlots # {}
            /\ socks' = [socks EXCEPT ![LowestFreeSlot] = NewSocket]
            /\ socket' = LowestFreeSlot
    /\ lastCall' = ConnectCall
    /\ UNCHANGED <<subscribedChannels, reconnectAttempts, token>>
    /\ UNCHANGED <<tradingVars, marketVars, appVars>>

\* connect() without the early return: the connected transport is replaced
connectWhenConnected_Reopen ==
    /\ SocketConnected
    /\ socks' = [socks EXCEPT ![socket] = NewSocket]
    /\ lastCall' = ConnectCall
    /\ UNCHANGED <<socket, subscribedChannels, reconnectAttempts, token>>
    /\ UNCHANGED <<tradingVars, marketVars, appVars>>

\* WebSocketService.connect when the transport is connected: early return
connectWhenConnected ==
    /\ SocketConnected
    /\ lastCall' = ConnectCall
    /\ UNCHANGED <<socket, socks, subscribedChannels, reconnectAttempts, token>>
    /\ UNCHANGED <<tradingVars, marketVars, appVars>>

\* disconnect() that keeps the registry
disconnect_KeepRegistry ==
    /\ IF socket # 0
       THEN /\ socks' = [socks EXCEPT ![socket] = NoSocket]
            /\ socket' = 0
       ELSE UNCHANGED <<socks, socket>>
    /\ lastCall' = DisconnectCall(subscribedChannels)
    /\ UNCHANGED <<subscribedChannels, reconnectAttempts, token>>
    /\ UNCHANGED <<tradingVars, marketVars, appVars>>

\* WebSocketService.disconnect
disconnect ==
    /\ IF socket # 0
       THEN /\ socks' = [socks EXCEPT ![socket] = NoSocket]
            /\ socket' = 0
       ELSE UNCHANGED <<socks, socket>>
    /\ subscribedChannels' = {}
    /\ lastCall' = DisconnectCall(subscribedChannels)
    /\ UNCHANGED <<reconnectAttempts, token>>
    /\ UNCHANGED <<tradingVars, marketVars, appVars>>

\* WebSocketService.subscribe: what it does to the service
subscribeService(channels) ==
    /\ IF socket = 0
       THEN UNCHANGED <<subscribedChannels, socks>>
       ELSE /\ subscribedChannels' = subscribeKeys(subscribedChannels, channels)
            /\ socks' = Emit(socks, socket, Message("subscribe", channels))
            /\ WithinBounds(socks')
    /\ lastCall' = [op |-> "subscribe", channels |-> channels]
    /\ UNCHANGED <<socket, reconnectAttempts, token>>

\* WebSocketService.unsubscribe: what it does to the service
unsubscribeService(channels) ==
    /\ IF socket = 0
       THEN UNCHANGED <<subscribedChannels, socks>>
       ELSE /\ subscribedChannels' = unsubscribeKeys(subscribedChannels, channels)
            /\ socks' = Emit(socks, socket, Message("unsubscribe", channels))
            /\ WithinBounds(socks')
    /\ lastCall' = [op |-> "unsubscribe", channels |-> channels]
    /\ UNCHANGED <<socket, reconnectAttempts, token>>

\* WebSocketService.subscribe
subscribe(channels) ==
    /\ subscribeService(channels)
    /\ UNCHANGED <<tradingVars, marketVars, appVars>>

\* WebSocketService.unsubscribe
unsubscribe(channels) ==
    /\ unsubscribeService(channels)
    /\ UNCHANGED <<tradingVars, marketVars, appVars>>

\* WebSocketService.subscribeToMarket
subscribeToMarket(symbol) == subscribe(MarketChannels(symbol))

\* WebSocketService.unsubscribeFromMarket
unsubscribeFromMarket(symbol) == unsubscribe(MarketChannels(symbol))

\* transport k opens: the 'connect' listener of setupEventListeners runs and
\* the packets buffered while it was not connected are sent. Which of the
\* two socket.io-client does first differs between its releases (the
\* repository pins none): flushFirst chooses.
OnConnect(k) ==
    /\ socks[k].status \in {"connecting", "reconnecting"}
    /\ \E flushFirst \in BOOLEAN :
          LET opened == [socks EXCEPT ![k].status = "connected",
                                      ![k].attempts = 0,
                                      ![k].sendBuffer = <<>>,
                                      ![k].received =
                                          IF flushFirst THEN socks[k].sendBuffer
                                          ELSE <<>>]
              listened == resubscribe(authenticate(opened))
          IN socks' = IF flushFirst THEN listened
                      ELSE [listened EXCEPT ![k].received = @ \o socks[k].sendBuffer]
    /\ WithinBounds(socks')
    /\ reconnectAttempts' = 0
    /\ lastCall' = NoCall
    /\ UNCHANGED <<socket, subscribedChannels, token>>
    /\ UNCHANGED <<tradingVars, marketVars, appVars>>

\* a manager that never gives up: every failed attempt schedules the next
OnConnectError_NoGiveUp(k) ==
    /\ socks[k].status \in {"connecting", "reconnecting"}
    /\ reconnectAttempts < MaxErrors
    /\ reconnectAttempts' = reconnectAttempts + 1
    /\ socks' = [socks EXCEPT ![k].status = "reconnecting", ![k].attempts = @ + 1]
    /\ lastCall' = NoCall
    /\ UNCHANGED <<socket, subscribedChannels, token>>
    /\ UNCHANGED <<tradingVars, marketVars, appVars>>

\* an attempt of transport k to open fails: the 'connect_error' listener runs
\* and the manager schedules the next attempt or, after
\* reconnectionAttempts of them, gives up
OnConnectError(k) ==
    /\ socks[k].status \in {"connecting", "reconnecting"}
    /\ reconnectAttempts < MaxErrors
    /\ reconnectAttempts' = reconnectAttempts + 1
    /\ socks' = IF socks[k].attempts >= maxReconnectAttempts
                THEN IF k = socket
                     THEN [socks EXCEPT ![k].status = "closed", ![k].attempts = 0]
                     ELSE [socks EXCEPT ![k] = NoSocket]
                ELSE [socks EXCEPT ![k].status = "reconnecting",
                                   ![k].attempts = @ + 1]
    /\ lastCall' = NoCall
    /\ UNCHANGED <<socket, subscribedChannels, token>>
    /\ UNCHANGED <<tradingVars, marketVars, appVars>>

\* the connection of transport k drops: the 'disconnect' listener logs, the
\* manager starts to reconnect; the server's session of it is gone
OnDisconnect(k) ==
    /\ socks[k].status = "connected"
    /\ socks' = [socks EXCEPT ![k].status = "reconnecting", ![k].attempts = 1,
                              ![k].received = <<>>]
    /\ lastCall' = NoCall
    /\ UNCHANGED <<socket, subscribedChannels, reconnectAttempts, token>>
    /\ UNCHANGED <<tradingVars, marketVars, appVars>>

\* a view mounted under the connected layout takes a symbol: the effect on
\* selectedPair calls subscribeToMarket
ViewSubscribe(view, symbol) ==
    /\ socket # 0
    /\ symbol \notin viewSubs[view]
    /\ viewSubs' = [viewSubs EXCEPT ![view] = @ \cup {symbol}]
    /\ subscribeService(MarketChannels(symbol))
    /\ UNCHANGED <<selectedPair, restPending, marketSubs, fetchResult, navigations>>
    /\ UNCHANGED <<tradingVars, marketVars, scenarioVars, walletVars, eventVars, bookVars,
                   raceVars>>

\* the view leaves the symbol: the cleanup of the effect calls
\* unsubscribeFromMarket
ViewUnsubscribe(view, symbol) ==
    /\ socket # 0
    /\ symbol \in viewSubs[view]
    /\ viewSubs' = [viewSubs EXCEPT ![view] = @ \ {symbol}]
    /\ unsubscribeService(MarketChannels(symbol))
    /\ UNCHANGED <<selectedPair, restPending, marketSubs, fetchResult, navigations>>
    /\ UNCHANGED <<tradingVars, marketVars, scenarioVars, walletVars, eventVars, bookVars,
                   raceVars>>

ViewSubscribeStep == \E view \in Views, symbol \in Symbols : ViewSubscribe(view, symbol)
ViewUnsubscribeStep == \E view \in Views, symbol \in Symbols : ViewUnsubscribe(view, symbol)

SubscribeStep == \E channels \in DirectChannelLists : subscribe(channels)
UnsubscribeStep == \E channels \in DirectChannelLists : unsubscribe(channels)
SubscribeToMarketStep == \E symbol \in MarketSymbols : subscribeToMarket(symbol)
UnsubscribeFromMarketStep == \E symbol \in MarketSymbols : unsubscribeFromMarket(symbol)
OnConnectStep == \E k \in Slots : OnConnect(k)
OnConnectErrorStep == \E k \in Slots : OnConnectError(k)
OnDisconnectStep == \E k \in Slots : OnDisconnect(k)

\* connect() called while no transport of the service is alive
connectFresh ==
    /\ IF socket = 0 THEN TRUE ELSE socks[socket].status = "closed"
    /\ connect

Next ==
    \/ connectFresh /\ UNCHANGED scenarioVars
    \/ connectWhenConnected /\ UNCHANGED scenarioVars
    \/ disconnect /\ UNCHANGED scenarioVars
    \/ SubscribeStep /\ UNCHANGED scenarioVars
    \/ UnsubscribeStep /\ UNCHANGED scenarioVars
    \/ SubscribeToMarketStep /\ UNCHANGED scenarioVars
    \/ UnsubscribeFromMarketStep /\ UNCHANGED scenarioVars
    \/ OnConnectStep /\ UNCHANGED scenarioVars
    \/ OnConnectErrorStep /\ UNCHANGED scenarioVars
    \/ OnDisconnectStep /\ UNCHANGED scenarioVars

\* an attempt of transport k fails while the manager has retries left
OnConnectErrorWithinBudget(k) ==
    /\ socks[k].attempts < maxReconnectAttempts
    /\ OnConnectError(k)

OnConnectErrorWithinBudgetStep == \E k \in Slots : OnConnectErrorWithinBudget(k)

\* channels subscribed and unsubscribed on the connected transport, drops,
\* failed attempts within the retry budget and reconnects; no call is made
\* while the transport is down
NextReconnect ==
    \/ connectFresh /\ UNCHANGED scenarioVars
    \/ (SocketConnected /\ SubscribeToMarketStep) /\ UNCHANGED scenarioVars
    \/ (SocketConnected /\ SubscribeStep) /\ UNCHANGED scenarioVars
    \/ (SocketConnected /\ UnsubscribeStep) /\ UNCHANGED scenarioVars
    \/ OnDisconnectStep /\ UNCHANGED scenarioVars
    \/ OnConnectErrorWithinBudgetStep /\ UNCHANGED scenarioVars
    \/ OnConnectStep /\ UNCHANGED scenarioVars

\* two views subscribing and unsubscribing on the layout's transport
NextViews ==
    \/ connectFresh /\ UNCHANGED scenarioVars
    \/ ViewSubscribeStep
    \/ ViewUnsubscribeStep
    \/ OnConnectStep /\ UNCHANGED scenarioVars
    \/ OnDisconnectStep /\ UNCHANGED scenarioVars

\* connect(), disconnect() and the transport events alone, connect() being
\* called in any state (also while a transport is connecting or retrying)
NextTransports ==
    \/ connect /\ UNCHANGED scenarioVars
    \/ connectWhenConnected /\ UNCHANGED scenarioVars
    \/ disconnect /\ UNCHANGED scenarioVars
    \/ OnConnectStep /\ UNCHANGED scenarioVars
    \/ OnConnectErrorStep /\ UNCHANGED scenarioVars
    \/ OnDisconnectStep /\ UNCHANGED scenarioVars

(***************************************************************************)
(* The documented reconnect scenario, observed on the service:             *)
(*   0 -connect()-> 1 -connect event, authenticate sent-> 2                *)
(*     -subscribeToMarket(ETH_USDT)-> 3 -drop-> 4 -connect event-> 5       *)
(*     -drop-> 6 -connect event-> 7                                        *)
(* A failed retry (connect_error) between a drop and its reconnect stays   *)
(* in place; any other operation leaves the scenario for good (-1).      *)
(***************************************************************************)

ScenarioNext(step, op) ==
    CASE step = 0 /\ op = "connect" -> 1
      [] step = 1 /\ op = "OnConnect" /\ token -> 2
      [] step = 2 /\ op = "subscribeToMarket" -> 3
      [] step \in {3, 5} /\ op = "OnDisconnect" -> step + 1
      [] step \in {4, 6} /\ op = "OnConnect" -> step + 1
      [] step \in {4, 6} /\ op = "OnConnectError" -> step
      [] OTHER -> -1

\* what the server receives on transport k in the step being taken
NewlyReceived(k) ==
    IF socks'[k].status # "connected" THEN <<>>
    ELSE IF socks[k].status = "connected"
         THEN SubSeq(socks'[k].received, Len(socks[k].received) + 1,
                     Len(socks'[k].received))
         ELSE socks'[k].received

\* subscribe messages among them that name the three channels of the symbol
MarketSubscribes(msgs, symbol) ==
    Cardinality({i \in 1..Len(msgs) : /\ msgs[i].kind = "subscribe"
                                      /\ MarketChannels(symbol) \subseteq msgs[i].channels})

RECURSIVE SumOver(_, _)
SumOver(f, S) ==
    IF S = {} THEN 0
    ELSE LET x == CHOOSE y \in S : TRUE IN f[x] + SumOver(f, S \ {x})

Observe(op) ==
    /\ scenario' = ScenarioNext(scenario, op)
    /\ scenarioSent' =
          IF scenario' = -1 THEN 0
          ELSE scenarioSent
               + SumOver([k \in Slots |-> MarketSubscribes(NewlyReceived(k), ETH_USDT)],
                         Slots)

NextScenario ==
    \/ connectFresh /\ Observe("connect")
    \/ subscribeToMarket(ETH_USDT) /\ Observe("subscribeToMarket")
    \/ OnConnectStep /\ Observe("OnConnect")
    \/ OnConnectErrorStep /\ Observe("OnConnectError")
    \/ OnDisconnectStep /\ Observe("OnDisconnect")

(***************************************************************************)
(* Initial state and specifications                                        *)
(***************************************************************************)

\* the module-level singleton: new WebSocketService()
InitWs ==
    /\ socket = 0
    /\ socks = [k \in 1..MaxSockets |-> NoSocket]
    /\ subscribedChannels = {}
    /\ reconnectAttempts = 0
    /\ token \in BOOLEAN
    /\ lastCall = NoCall
    /\ scenario = 0
    /\ scenarioSent = 0

\* the state of the later sections
InitApp == InitWallet /\ InitEvents /\ InitView /\ InitOrderRace

Init == InitTrading /\ InitMarket /\ InitWs /\ InitApp

\* the order store under its reducers
SpecOrders == Init /\ [][NextOrders]_vars

\* the order store under its reducers and the rejected commands, every
\* dispatch recorded in orderOp
InitOrderOps == Init /\ token = FALSE
SpecOrderOps == InitOrderOps /\ [][NextOrderOps]_vars

\* the order lists under the four reducers, one filled_amount
SpecContainers == InitOrderOps /\ [][NextContainers]_vars

\* the trade tape under REST replacements and streamed trades
SpecTapeRest == Init /\ [][NextTapeRest]_vars

\* the stores under the inbound events of one transport
SpecEvents == Init /\ [][NextEvents]_vars

\* the market store under the Trade view, its snapshot requests and the stream
SpecView == Init /\ [][NextView]_vars

\* the order lists under REST responses and streamed order events
SpecOrderRace == Init /\ [][NextOrderRace]_vars

\* the registry under two views that share the service
SpecViews == Init /\ [][NextViews]_vars

\* the service across drops with the network back within the retry budget:
\* an attempt that can succeed eventually does (reconnection: true, the
\* manager's retry timer)
SpecReconnect ==
    Init /\ [][NextReconnect]_vars /\ WF_vars(OnConnectStep /\ UNCHANGED scenarioVars)

\* the balance list under updateBalance
SpecWallet == Init /\ [][NextWallet]_vars

\* the ticker map under updateTicker
SpecTicker == Init /\ [][NextTicker]_vars

\* the trade tape fed by sequential streamed trades
SpecTape == Init /\ [][NextTape]_vars

\* the trade tape fed by a REST snapshot racing the stream
SpecSnapshot == Init /\ [][NextSnapshot]_vars

\* the WebSocketService with one transport alive at a time
Spec == Init /\ [][Next]_vars

\* the WebSocketService's transports under connect() called in any state
SpecTransports == Init /\ [][NextTransports]_vars

\* the WebSocketService under the operations of the reconnect scenario
SpecScenario == Init /\ [][NextScenario]_vars

(***************************************************************************)
(* Claims about tradingSlice                                               *)
(***************************************************************************)

\* some entry of the array carries this order id

\* C1: order-status exclusivity. After every reducer call each order id is
\* in at most one of openOrders and orderHistory; and an updateOrder with
\* status 'filled' for an id that is in openOrders removes the id from
\* openOrders and puts an entry with that id at the front of orderHistory.
C1_OrderStatusExclusivity ==
    [][ /\ \A id \in OrderIds : ~(IdIn(openOrders', id) /\ IdIn(orderHistory', id))
        /\ \A order \in Orders :
              (order.status = "filled" /\ IdIn(openOrders, order.id) /\ updateOrder(order))
              => (~IdIn(openOrders', order.id) /\ Head(orderHistory').id = order.id)
      ]_vars

\* C8: terminal transition of a known order. An updateOrder with status
\* filled or cancelled for an id that is in openOrders leaves the id absent
\* from openOrders and the event as the first entry of orderHistory; order 7
\* recorded as open and then filled leaves openOrders empty and orderHistory
\* holding exactly that one event.
C8_TerminalTransitionOfKnownOrder ==
    [][ \A order \in Orders :
          (TerminalStatus(order.status) /\ IdIn(openOrders, order.id) /\ updateOrder(order))
          => /\ ~IdIn(openOrders', order.id)
             /\ Head(orderHistory') = order
             /\ (Len(openOrders) = 1 /\ orderHistory = <<>>)
                   => (openOrders' = <<>> /\ orderHistory' = <<order>>)
      ]_vars

\* positions of the array whose entry carries this order id
PositionsOf(arr, id) == {i \in 1..Len(arr) : arr[i].id = id}

\* C16: non-terminal order event. An updateOrder with status open or
\* partially_filled replaces the entry with the same id in openOrders in
\* place if one is present and otherwise inserts the order; afterwards
\* openOrders contains the event's order in both cases.
C16_NonTerminalOrderEvent ==
    [][ \A order \in OpOrders :
          (/\ OpenStatus(order.status)
           /\ updateOrder(order)
           /\ orderOp' = OrderOp("updateOrder", order))
          => /\ \E i \in 1..Len(openOrders') : openOrders'[i] = order
             /\ IdIn(openOrders, order.id)
                   => /\ Len(openOrders') = Len(openOrders)
                      /\ \E i \in PositionsOf(openOrders, order.id) :
                            openOrders' = [openOrders EXCEPT ![i] = order]
             /\ orderHistory' = orderHistory
      ]_vars

\* C17: terminal event for an unknown order. An updateOrder with status
\* filled or cancelled for an id that is in neither openOrders nor
\* orderHistory prepends the order to orderHistory and leaves openOrders
\* unchanged.
C17_TerminalEventForUnknownOrder ==
    [][ \A order \in OpOrders :
          (/\ TerminalStatus(order.status)
           /\ ~IdIn(openOrders, order.id)
           /\ ~IdIn(orderHistory, order.id)
           /\ updateOrder(order)
           /\ orderOp' = OrderOp("updateOrder", order))
          => /\ orderHistory' = <<order>> \o orderHistory
             /\ openOrders' = openOrders
      ]_vars

\* a terminal event for an unknown order has just been applied, with another
\* order open and another one already in the history
C17_Witness ==
    /\ orderOp.op = "updateOrder"
    /\ TerminalStatus(orderOp.status)
    /\ ~orderOp.wasOpen
    /\ ~orderOp.wasHistory
    /\ Len(orderHistory) = 2
    /\ Head(orderHistory) = OpOrder(orderOp)
    /\ openOrders # <<>>

\* C18: no duplicate history entries. After every sequence of
\* cancelOrder.fulfilled and updateOrder calls orderHistory holds at most one
\* entry per order id, and that entry carries the state of the last event
\* applied for the id.
C18_NoDuplicateHistoryEntries ==
    /\ \A id \in OrderIds : Cardinality(PositionsOf(orderHistory, id)) <= 1
    /\ (orderOp.op = "updateOrder" /\ TerminalStatus(orderOp.status))
          => \A i \in PositionsOf(orderHistory, orderOp.id) :
                orderHistory[i] = OpOrder(orderOp)

\* C19: command failure leaves the order store untouched. A rejected
\* createOrder inserts no order and a rejected cancelOrder removes none:
\* openOrders and orderHistory are the same before and after.
C19_CommandFailureLeavesStoreUntouched ==
    [][ ((createOrderRejected /\ orderOp'.op = "createOrder.rejected")
         \/ \E orderId \in OrderIds :
               /\ cancelOrderRejected(orderId)
               /\ orderOp' = OrderOp("cancelOrder.rejected", CancelArg(orderId)))
        => /\ openOrders' = openOrders
           /\ orderHistory' = orderHistory
      ]_vars

\* the cancel of an open order has just been rejected and the order is
\* still open
C19_Witness ==
    /\ orderOp.op = "cancelOrder.rejected"
    /\ orderOp.wasOpen
    /\ IdIn(openOrders, orderOp.id)
    /\ Len(openOrders) = 2

\* C20: recordNewOrder (addOrder and createOrder.fulfilled). An order with
\* status open or partially_filled becomes the first element of openOrders,
\* the prior elements keeping their order; an order with any other status
\* leaves openOrders and orderHistory unchanged.
C20_RecordNewOrder ==
    [][ \A order \in OpOrders :
          (\/ addOrder(order) /\ orderOp' = OrderOp("addOrder", order)
           \/ createOrderFulfilled(order)
                 /\ orderOp' = OrderOp("createOrder.fulfilled", order))
          => /\ orderHistory' = orderHistory
             /\ openOrders' = IF OpenStatus(order.status)
                              THEN <<order>> \o openOrders
                              ELSE openOrders
      ]_vars

\* createOrder.fulfilled has just put an open order in front of another one
C20_Witness ==
    /\ orderOp.op = "createOrder.fulfilled"
    /\ OpenStatus(orderOp.status)
    /\ Len(openOrders) = 2
    /\ Head(openOrders) = OpOrder(orderOp)
    /\ openOrders[2].id # orderOp.id


(***************************************************************************)
(* Claims about marketSlice                                                *)
(***************************************************************************)

Min(a, b) == IF a <= b THEN a ELSE b

\* C5: trade-tape bound. After N sequential trade events from an empty tape
\* recentTrades has min(N, 100) entries, newest first (entry i is event
\* N - i + 1); after 150 events it has exactly 100 entries, the first is
\* event 150 and the 100th is event 51.
C5_TradeTapeBound ==
    /\ Len(recentTrades) = Min(tradesFed, 100)
    /\ \A i \in 1..Len(recentTrades) : recentTrades[i] = TradeEvent(tradesFed - i + 1)
    /\ tradesFed = 150 =>
          /\ Len(recentTrades) = 100
          /\ recentTrades[1] = TradeEvent(150)
          /\ recentTrades[100] = TradeEvent(51)

\* 150 events have been fed and the oldest 50 evicted
C5_Witness == tradesFed = 150 /\ Len(recentTrades) = 100 /\ recentTrades[100].id = 51

\* the last event of the sequence that carries this symbol (0 if none)
LastIndexFor(events, symbol) ==
    IF \E i \in 1..Len(events) : events[i].symbol = symbol
    THEN CHOOSE i \in 1..Len(events) :
            /\ events[i].symbol = symbol
            /\ \A j \in (i + 1)..Len(events) : events[j].symbol # symbol
    ELSE 0

\* C7: last-write-wins on ticker. After updateTicker(E1) then updateTicker(E2)
\* with the same symbol, tickers[symbol] is exactly E2; in general the store
\* holds, for each symbol, exactly the newest event dispatched for it.
C7_LastWriteWinsOnTicker ==
    /\ DOMAIN tickers = {tickerEvents[i].symbol : i \in 1..Len(tickerEvents)}
    /\ \A symbol \in DOMAIN tickers :
          tickers[symbol] = tickerEvents[LastIndexFor(tickerEvents, symbol)]
    /\ (Len(tickerEvents) = 2 /\ tickerEvents[1].symbol = tickerEvents[2].symbol)
          => tickers[tickerEvents[2].symbol] = tickerEvents[2]

\* two events for one symbol that differ in every other field were applied
C7_Witness ==
    /\ Len(tickerEvents) = 2
    /\ tickerEvents[1].symbol = tickerEvents[2].symbol
    /\ \A f \in {"last_price", "price_change_24h", "high_24h", "low_24h", "volume_24h"} :
          tickerEvents[1][f] # tickerEvents[2][f]
    /\ tickers[tickerEvents[2].symbol] = tickerEvents[2]

\* number of entries of the tape that carry this trade id
RECURSIVE CountId(_, _)
CountId(arr, id) ==
    IF arr = <<>> THEN 0
    ELSE (IF Head(arr).id = id THEN 1 ELSE 0) + CountId(Tail(arr), id)

\* ids of the trades the REST response delivered (none before it is applied)
RestDelivered ==
    IF fetchTrades = "fulfilled"
    THEN {restResponse[2][i].id : i \in 1..Len(restResponse[2])}
    ELSE {}

\* C3: snapshot/stream reconciliation without loss or duplication. In every
\* interleaving of fetchRecentTrades.fulfilled with streamed addRecentTrade
\* events, every trade delivered by either source appears in recentTrades
\* exactly once (the cap of 100 is not reached in these runs).
C3_SnapshotStreamReconciliation ==
    \A id \in RestDelivered \cup streamDelivered : CountId(recentTrades, id) = 1

(***************************************************************************)
(* Claims about WebSocketService                                           *)
(***************************************************************************)

\* C4: reconnect scenario. After connect(), authentication,
\* subscribeToMarket('ETH_USDT') and two drops each followed by a successful
\* reconnect, the three ETH_USDT channels have reached the server in
\* subscribe messages exactly three times (the call and one replay per
\* reconnect), and from the call on the registry holds exactly 3 entries.
C4_ReconnectScenario ==
    /\ scenario = 7 => scenarioSent = 3
    /\ scenario \in 3..7 => Cardinality(subscribedChannels) = 3

\* the channel lists the calls of the model pass
CallLists == DirectChannelLists \cup {MarketChannels(symbol) : symbol \in MarketSymbols}

KeysOf(channels) == {ChannelKey(c) : c \in channels}

\* the topics whose key the registry holds
RegistryTopics == {c \in Channels : ChannelKey(c) \in subscribedChannels}

\* the subscribe messages of a sequence of messages
SubscribeIndexes(msgs) == {i \in 1..Len(msgs) : msgs[i].kind = "subscribe"}

\* what the server holds subscribed after a sequence of messages
RECURSIVE ServerSubscribed(_)
ServerSubscribed(msgs) ==
    IF msgs = <<>> THEN {}
    ELSE LET before == ServerSubscribed(SubSeq(msgs, 1, Len(msgs) - 1))
             m == msgs[Len(msgs)]
         IN CASE m.kind = "subscribe" -> before \cup m.channels
              [] m.kind = "unsubscribe" -> before \ m.channels
              [] OTHER -> before

\* C2: reconnect replay. With the registry holding exactly (ticker, BTC_USDT)
\* and (orderbook, BTC_USDT), the reconnect after a drop resends subscribe
\* channels for exactly those two (type, symbol) pairs, no more, no fewer.
C2_ReconnectReplay ==
    [][ \A k \in Slots :
          ( /\ OnConnect(k)
            /\ k = socket
            /\ socks[k].status = "reconnecting"
            /\ socks[k].sendBuffer = <<>>
            /\ subscribedChannels = KeysOf({Channel("ticker", BTC_USDT),
                                            Channel("orderbook", BTC_USDT)}) )
          => LET resent == NewlyReceived(k) IN
             /\ Cardinality(SubscribeIndexes(resent)) = 1
             /\ \A i \in SubscribeIndexes(resent) :
                   resent[i].channels = {Channel("ticker", BTC_USDT),
                                         Channel("orderbook", BTC_USDT)}
      ]_vars

\* C6: idempotent subscription. subscribe(channels) applied a second time
\* leaves subscribedChannels as the first application left it (both when the
\* step is the second of two such calls in a row, and for the registry that
\* any such call produces), and unsubscribe(channels) for topics that are
\* not in the registry leaves it unchanged.
C6_IdempotentSubscription ==
    [][ \A channels \in CallLists :
          /\ (lastCall = [op |-> "subscribe", channels |-> channels] /\ subscribe(channels))
             => subscribedChannels' = subscribedChannels
          /\ subscribe(channels)
             => (IF socket' = 0 THEN subscribedChannels'
                 ELSE subscribeKeys(subscribedChannels', channels)) = subscribedChannels'
          /\ (unsubscribe(channels) /\ KeysOf(channels) \cap subscribedChannels = {})
             => subscribedChannels' = subscribedChannels
      ]_vars

\* subscribe([t]) has been called twice in a row on a connected transport
\* and the registry holds the one key of t
C6_Witness ==
    /\ SocketConnected
    /\ lastCall.op = "subscribe"
    /\ Cardinality(subscribedChannels) = 1
    /\ LET rcv == IF socket = 0 THEN <<>> ELSE socks[socket].received IN
       \E i \in 1..(Len(rcv) - 1) :
          /\ rcv[i].kind = "subscribe"
          /\ rcv[i + 1] = rcv[i]
          /\ KeysOf(rcv[i].channels) = subscribedChannels

\* C9: subscribe/unsubscribe while not connected update the registry and
\* put no message on the wire for that call (the change reaches the server
\* only through the one replay of the next connect); while connected the
\* message is sent at once.
C9_SubscribeWhileNotConnected ==
    [][ /\ \A channels \in CallLists :
            /\ subscribe(channels)
               => IF SocketConnected
                  THEN NewlyReceived(socket) = <<Message("subscribe", channels)>>
                  ELSE /\ subscribedChannels' = subscribedChannels \cup KeysOf(channels)
                       /\ \A k \in Slots : NewlyReceived(k) = <<>>
            /\ unsubscribe(channels)
               => IF SocketConnected
                  THEN NewlyReceived(socket) = <<Message("unsubscribe", channels)>>
                  ELSE /\ subscribedChannels' = subscribedChannels \ KeysOf(channels)
                       /\ \A k \in Slots : NewlyReceived(k) = <<>>
        /\ \A k \in Slots :
            OnConnect(k)
            => LET sent == NewlyReceived(k) IN
               /\ \A i \in 1..Len(sent) : sent[i].kind # "unsubscribe"
               /\ Cardinality(SubscribeIndexes(sent)) <= 1
      ]_vars

\* C10: registry/server agreement. Whenever the transport is connected (the
\* connect-and-replay cycle is complete), the topics the server holds
\* subscribed on that connection are exactly the registry's topics.
C10_RegistryServerAgreement ==
    SocketConnected =>
        ServerSubscribed(socks[socket].received) = RegistryTopics

\* C11: connect() is idempotent. A connect() call made while the transport is
\* connected opens no transport, registers no listener again and leaves the
\* registry and the retry counter as they are.
C11_ConnectIdempotent ==
    [][ (SocketConnected /\ lastCall' = ConnectCall)
        => /\ socket' = socket
           /\ socks' = socks
           /\ subscribedChannels' = subscribedChannels
           /\ reconnectAttempts' = reconnectAttempts
      ]_vars

\* connect() has just been called on a connected transport with subscriptions
C11_Witness ==
    /\ lastCall = ConnectCall
    /\ SocketConnected
    /\ socks[socket].listeners = 1
    /\ subscribedChannels # {}

\* C12: disconnect() tears down the transport and empties the registry.
\* After the call the service holds no transport and the registry is empty;
\* when there was no transport nothing changes; while there is no transport
\* the registry stays empty, connect() does not touch it, and a connect
\* event that finds the registry empty sends no replay.
C12_DisconnectClearsRegistry ==
    [][ /\ lastCall'.op = "disconnect"
           => /\ socket' = 0
              /\ subscribedChannels' = {}
              /\ socket # 0 => socks'[socket].status = "none"
              /\ socket = 0 => (socks' = socks /\ subscribedChannels = {})
        /\ socket' = 0 => subscribedChannels' = {}
        /\ lastCall' = ConnectCall => subscribedChannels' = subscribedChannels
        /\ \A k \in Slots :
              (OnConnect(k) /\ subscribedChannels = {})
              => /\ Cardinality(SubscribeIndexes(NewlyReceived(k)))
                    = Cardinality(SubscribeIndexes(socks[k].sendBuffer))
                 /\ Len(NewlyReceived(k))
                    = Len(socks[k].sendBuffer) + (IF token /\ k = socket THEN 1 ELSE 0)
      ]_vars

\* disconnect() has just been called with subscriptions in the registry
C12_Witness ==
    /\ lastCall.op = "disconnect"
    /\ lastCall.channels # {}
    /\ socket = 0
    /\ subscribedChannels = {}

\* C13: bounded retry. No transport makes more than maxReconnectAttempts
\* reconnection attempts without a success in between, and
\* reconnectAttempts is 0 after every step in which a transport connects.
C13_BoundedRetry ==
    [][ \A k \in Slots :
          /\ socks'[k].attempts <= maxReconnectAttempts
          /\ (socks[k].status # "connected" /\ socks'[k].status = "connected")
                => reconnectAttempts' = 0
      ]_vars

\* after a drop, four retries have failed and the fifth is under way
C13_Witness ==
    /\ socket # 0
    /\ socks[socket].status = "reconnecting"
    /\ socks[socket].attempts = maxReconnectAttempts
    /\ reconnectAttempts = maxReconnectAttempts - 1

\* C14: retry exhaustion. A transport whose retries are exhausted stays
\* closed until the caller acts (no further attempt, no connect event), and
\* a connect() call on it starts a fresh cycle: a new transport with no
\* attempt made and reconnectAttempts back to 0.
C14_RetryExhaustion ==
    [][ /\ \A k \in Slots :
              socks[k].status = "closed"
              => \/ socks'[k].status = "closed"
                 \/ lastCall'.op \in {"connect", "disconnect"}
        /\ (socket # 0 /\ socks[socket].status = "closed" /\ lastCall' = ConnectCall)
              => /\ socket' # 0
                 /\ socks'[socket'] = NewSocket
                 /\ reconnectAttempts' = 0
      ]_vars

\* what the 'connect' listener is to send: authenticate (when a token is
\* stored), then one subscribe with the registry's topics
AuthenticateThenReplay ==
    (IF token THEN <<Message("authenticate", {})>> ELSE <<>>)
    \o (IF subscribedChannels # {}
        THEN <<Message("subscribe", RegistryTopics)>>
        ELSE <<>>)

\* C15: on every successful connect or reconnect of the service's transport
\* the first messages the server receives on the connection are
\* authenticate and then one replay of the whole registry, before any other
\* message.
C15_AuthenticateThenReplayOnConnect ==
    [][ \A k \in Slots :
          (OnConnect(k) /\ k = socket)
          => /\ Len(NewlyReceived(k)) >= Len(AuthenticateThenReplay)
             /\ SubSeq(NewlyReceived(k), 1, Len(AuthenticateThenReplay))
                   = AuthenticateThenReplay
      ]_vars

\* C28: trade-tape cap as an invariant. After any sequence of
\* fetchRecentTrades.fulfilled (a response of any length) and addRecentTrade,
\* recentTrades has at most 100 entries.
C28_TradeTapeCap == Len(recentTrades) <= TapeCap

\* the transports that exist with the service's listeners on them
LiveTransports ==
    {k \in Slots : socks[k].status \in {"connecting", "connected", "reconnecting"}}

\* C29: single transport. After any sequence of connect(), disconnect() and
\* transport events at most one transport with registered handlers exists
\* (a connect() made while the first transport is still connecting creates
\* no second one), and disconnect() leaves no live transport behind.
C29_SingleTransport ==
    /\ Cardinality(LiveTransports) <= 1
    /\ lastCall.op = "disconnect" => LiveTransports = {}

\* the messages transport k holds sent or buffered
Outbound(sks, k) == Len(sks[k].received) + Len(sks[k].sendBuffer)

\* C25: subscribeToMarket / unsubscribeFromMarket act on the three topic
\* kinds at once. After subscribeToMarket(s) the registry holds the keys of
\* (ticker, s), (orderbook, s) and (trades, s), after unsubscribeFromMarket(s)
\* none of them; no state holds only one or two of them; each call sends at
\* most one message, which carries the three channels.
C25_MarketSubscriptionAtomic ==
    [][ \A symbol \in MarketSymbols :
          /\ subscribeToMarket(symbol)
                => /\ KeysOf(MarketChannels(symbol)) \subseteq subscribedChannels'
                   /\ SocketConnected
                         => NewlyReceived(socket)
                            = <<Message("subscribe", MarketChannels(symbol))>>
          /\ unsubscribeFromMarket(symbol)
                => /\ KeysOf(MarketChannels(symbol)) \cap subscribedChannels' = {}
                   /\ SocketConnected
                         => NewlyReceived(socket)
                            = <<Message("unsubscribe", MarketChannels(symbol))>>
          /\ (subscribeToMarket(symbol) \/ unsubscribeFromMarket(symbol))
                => \A k \in Slots : Outbound(socks', k) <= Outbound(socks, k) + 1
          /\ Cardinality(KeysOf(MarketChannels(symbol)) \cap subscribedChannels')
                \in {0, 3}
      ]_vars

(***************************************************************************)
(* Claims about the inbound events                                         *)
(***************************************************************************)

\* the stores before any event
InitialStores ==
    [tickers |-> <<>>, orderBook |-> EmptyBook, recentTrades |-> <<>>,
     openOrders |-> <<>>, orderHistory |-> <<>>, balances |-> <<>>]

\* the reducers applied one by one, in the order of the sequence
RECURSIVE ApplyInOrder(_, _)
ApplyInOrder(st, evs) ==
    IF evs = <<>> THEN st ELSE ApplyInOrder(ApplyEvent(st, Head(evs)), Tail(evs))

\* the events whose listener has run
Handled == SubSeq(arrived, 1, Len(arrived) - Len(inbound))

\* C23: unknown inbound event kinds are dropped. The delivery of an event
\* whose name has no listener changes no store and no connection or
\* registry state, and the events behind it are applied as usual.
C23_UnknownEventsDropped ==
    [][ (DeliverEvent /\ inbound[NextIndex(inbound)].name \notin RegisteredEvents)
        => /\ Stores' = Stores
           /\ UNCHANGED wsVars
           /\ inbound' = Tail(inbound)
      ]_vars

\* an event without a listener was delivered first and the ticker event
\* behind it has been applied
C23_Witness ==
    /\ Len(arrived) = 2
    /\ arrived[1].name \notin RegisteredEvents
    /\ arrived[2].name = "ticker"
    /\ inbound = <<>>
    /\ "BTC_USDT" \in DOMAIN tickers
    /\ tickers["BTC_USDT"] = arrived[2].data

EventSymbol(ev) ==
    CASE ev.name = "orderbook" -> ev.data.symbol
      [] ev.name = "trade" -> TradeSymbol(ev.data)
      [] OTHER -> "none"

\* the symbols the stored trades are of
TapeSymbols == {TradeSymbol(recentTrades[i]) : i \in DOMAIN recentTrades}

\* C21: failed snapshot fetch. When fetchOrderBook or fetchRecentTrades is
\* rejected, orderBook, recentTrades and tickers stay what they were, the
\* caller gets a rejected result, the subscriptions and the queued events
\* are untouched, and the request is no longer pending, so that the caller
\* can dispatch it again.
C21_FailedSnapshotFetch ==
    [][ \A req \in restPending :
            FetchRejected(req)
            => /\ orderBook' = orderBook
               /\ recentTrades' = recentTrades
               /\ tickers' = tickers
               /\ fetchResult' = Settled(req, "rejected")
               /\ marketSubs' = marketSubs
               /\ inbound' = inbound
               /\ restPending' = restPending \ {req}
      ]_vars

\* a book fetch was rejected, dispatched again and fulfilled: the snapshot
\* has replaced the book
C21_Witness ==
    /\ fetchResult = [kind |-> "orderbook", symbol |-> selectedPair,
                      result |-> "fulfilled", retried |-> TRUE]
    /\ orderBook = SnapshotBook(selectedPair)

\* C22: symbol switch of the order book. The stored book is never the book
\* of a symbol other than the viewed one, and a symbol's book events are
\* subscribed to only once its snapshot is the stored book.
C22_SymbolSwitch ==
    /\ orderBook.symbol \in {"none", selectedPair}
    /\ \A symbol \in marketSubs : orderBook.symbol = symbol

\* C30: late snapshot or event for a symbol no longer viewed. A response or
\* a book/trade event for a symbol that is not the viewed one is discarded:
\* it changes neither orderBook nor recentTrades.
C30_LateDataDiscarded ==
    [][ /\ \A req \in restPending :
              (FetchFulfilled(req) /\ req.symbol # selectedPair)
              => (orderBook' = orderBook /\ recentTrades' = recentTrades)
        /\ (DeliverEvent /\ EventSymbol(inbound[NextIndex(inbound)]) # selectedPair)
              => (orderBook' = orderBook /\ recentTrades' = recentTrades)
      ]_vars

(***************************************************************************)
(* Claims about orders over REST and over the stream                       *)
(***************************************************************************)

\* C27: exclusivity under REST/stream interleavings. Whatever the order in
\* which streamed order events and the responses of createOrder,
\* cancelOrder and fetchOpenOrders arrive, no order id is in openOrders and
\* in orderHistory after a step, and an id that is in orderHistory only is
\* not put into openOrders.
C27_ExclusivityUnderInterleavings ==
    [][ \A id \in OrderIds :
            /\ ~(IdIn(openOrders', id) /\ IdIn(orderHistory', id))
            /\ (IdIn(orderHistory, id) /\ ~IdIn(openOrders, id)) => ~IdIn(openOrders', id)
      ]_vars

(***************************************************************************)
(* Claims about walletSlice                                                *)
(***************************************************************************)

\* positions of the list whose entry is for this currency
EntriesFor(bals, currency) == {i \in 1..Len(bals) : bals[i].currency = currency}

\* C26: applyBalanceEvent. After updateBalance for currency c the list holds
\* exactly one entry for c, equal to the event's record, and every other
\* entry is unchanged: an absent c is inserted, a present one replaced in
\* place. The list never holds two entries for one currency.
C26_BalanceReplaceOrInsert ==
    [][ /\ \A payload \in Balances :
              updateBalance(payload)
              => /\ \E i \in 1..Len(balances') :
                       /\ EntriesFor(balances', payload.currency) = {i}
                       /\ balances'[i] = payload
                 /\ IF EntriesFor(balances, payload.currency) = {}
                    THEN balances' = Append(balances, payload)
                    ELSE \E i \in EntriesFor(balances, payload.currency) :
                            balances' = [balances EXCEPT ![i] = payload]
        /\ \A c \in Currencies : Cardinality(EntriesFor(balances', c)) <= 1
      ]_vars

\* a balance event has just replaced the first of two entries in place
C26_Witness ==
    /\ walletOp.op = "updateBalance"
    /\ walletOp.wasPresent
    /\ Len(balances) = 2
    /\ balances[1].currency = walletOp.currency
    /\ balances[2].currency # walletOp.currency

(***************************************************************************)
(* Claims about the order lists as containers                              *)
(***************************************************************************)

\* C33: container status invariant. After every step of addOrder,
\* createOrder.fulfilled, updateOrder and cancelOrder.fulfilled each entry
\* of openOrders is open or partially_filled and each entry of orderHistory
\* is filled or cancelled; orderHistory either stays as it is or gets one
\* new entry at its front, its earlier entries unchanged behind it.
C33_ContainerStatus ==
    [][ /\ \A i \in DOMAIN openOrders' : OpenStatus(openOrders'[i].status)
        /\ \A i \in DOMAIN orderHistory' : TerminalStatus(orderHistory'[i].status)
        /\ \/ orderHistory' = orderHistory
           \/ /\ Len(orderHistory') = Len(orderHistory) + 1
              /\ Tail(orderHistory') = orderHistory
      ]_vars

\* both lists are filled: the open list holds an open and a partially
\* filled entry and the history a filled and a cancelled one
C33_Witness ==
    /\ Len(openOrders) = 2
    /\ Len(orderHistory) = 2
    /\ {openOrders[i].status : i \in DOMAIN openOrders} = {"open", "partially_filled"}
    /\ {orderHistory[i].status : i \in DOMAIN orderHistory} = {"filled", "cancelled"}

\* C35: openOrders holds no duplicate ids. After any sequence of addOrder,
\* createOrder.fulfilled and updateOrder each order id is at most once in
\* openOrders.
C35_NoDuplicateOpenOrders ==
    \A id \in OrderIds : Cardinality(PositionsOf(openOrders, id)) <= 1

(***************************************************************************)
(* Claims about order events among the other stores                        *)
(***************************************************************************)

\* the order event whose listener runs next
NextOrderEvent == inbound[NextIndex(inbound)].data

\* C38: frame of an order event. Applying updateOrder for order id X leaves
\* the entries of openOrders with another id as they are and in their
\* order, leaves the entries orderHistory had as they are and in their
\* order, and changes neither the balances nor the market store.
C38_OrderEventFrame ==
    [][ (DeliverEvent /\ inbound[NextIndex(inbound)].name = "order_update")
        => /\ FilterOutId(openOrders', NextOrderEvent.id)
                = FilterOutId(openOrders, NextOrderEvent.id)
           /\ SubSeq(orderHistory', Len(orderHistory') - Len(orderHistory) + 1,
                     Len(orderHistory')) = orderHistory
           /\ balances' = balances
           /\ UNCHANGED <<tickers, orderBook, recentTrades>>
      ]_vars

\* the partial fill and then the fill of one order have been applied while
\* the other order was listed: that order is still listed, as it was
C38_Witness ==
    /\ inbound = <<>>
    /\ Len(arrived) = 2
    /\ arrived[1].name = "order_update"
    /\ arrived[2].name = "order_update"
    /\ arrived[1].data.status = "partially_filled"
    /\ arrived[2].data.status = "filled"
    /\ arrived[1].data.id = arrived[2].data.id
    /\ orderHistory = <<arrived[2].data>>
    /\ Len(openOrders) = 1
    /\ openOrders[1].id # arrived[2].data.id
    /\ openOrders[1].status = "open"

\* the events awaiting their listener
Queued == {inbound[i] : i \in DOMAIN inbound}

\* the cancelled order of an id as the response and the event both carry it
Cancelled(id) == ServerOrder(id, "cancelled")

\* the cancelOrder response and the cancelled event of an id are both on
\* their way and the order is listed
BothOnTheirWay(id) ==
    /\ Response("cancel", <<Cancelled(id)>>) \in restOrders
    /\ Event("order_update", Cancelled(id)) \in Queued
    /\ IdIn(openOrders, id)

\* both have been applied
BothApplied(id) ==
    /\ srvOrders[id] = "cancelled"
    /\ Response("cancel", <<Cancelled(id)>>) \notin restOrders
    /\ Event("order_update", Cancelled(id)) \notin Queued
    /\ \E i \in DOMAIN arrived : arrived[i] = Event("order_update", Cancelled(id))

\* C31: commutativity of local cancel and streamed confirmation. For a
\* listed order whose cancelOrder response and cancelled event are both on
\* their way, cancelOrder.fulfilled then updateOrder gives the same lists as
\* updateOrder then cancelOrder.fulfilled: the id not in openOrders and once
\* in orderHistory; once both have been applied the id is once in
\* orderHistory.
C31_CancelCommutes ==
    \A id \in OrderIds :
        /\ BothOnTheirWay(id)
            => LET localFirst ==
                       [open |-> updateOrderOpen(cancelOrderOpen(openOrders, Cancelled(id)),
                                                 Cancelled(id)),
                        hist |-> updateOrderHistory(orderHistory, Cancelled(id))]
                   streamFirst ==
                       [open |-> cancelOrderOpen(updateOrderOpen(openOrders, Cancelled(id)),
                                                 Cancelled(id)),
                        hist |-> updateOrderHistory(orderHistory, Cancelled(id))]
               IN /\ localFirst = streamFirst
                  /\ ~IdIn(localFirst.open, id)
                  /\ Cardinality(PositionsOf(localFirst.hist, id)) = 1
        /\ BothApplied(id) => Cardinality(PositionsOf(orderHistory, id)) = 1

\* the response and the event of a cancelled order have both been applied
\* and no other request is on its way: the order is in the history only
C31_Witness ==
    \E id \in OrderIds :
        /\ BothApplied(id)
        /\ restOrders = {}
        /\ inbound = <<>>
        /\ ~IdIn(openOrders, id)
        /\ orderHistory = <<Cancelled(id)>>

(***************************************************************************)
(* Claims about the registry keys, the credential and the retry counter    *)
(***************************************************************************)

\* C34: registry key round-trip. For every channel whose key subscribe has
\* put into the registry, decoding the key as resubscribe does gives the
\* channel's (type, symbol) pair back.
C34_KeyRoundTrip ==
    \A c \in Channels :
        ChannelKey(c) \in subscribedChannels => KeyToChannel(ChannelKey(c)) = c

\* the messages of a kind in a sequence of messages
KindIndexes(msgs, kind) == {i \in 1..Len(msgs) : msgs[i].kind = kind}

C39_RetryCounterBound == reconnectAttempts \in 0..maxReconnectAttempts

\* the views that hold a symbol
Holders(symbol) == {view \in Views : symbol \in viewSubs[view]}

\* C32: subscription lifecycle across views. A market's topics are in the
\* registry as long as at least one view that subscribed to them has not
\* unsubscribed: with two holders, one unsubscribing leaves them there.
C32_SubscriptionLifecycle ==
    \A symbol \in Symbols :
        Holders(symbol) # {} => KeysOf(MarketChannels(symbol)) \subseteq subscribedChannels

\* C36: reconnection liveness. Whenever the service's transport is down and
\* retrying with a registry that is not empty, it is eventually connected
\* again with every topic of the registry subscribed at the server on the
\* new connection.
C36_ReconnectionLiveness ==
    (/\ socket # 0
     /\ subscribedChannels # {}
     /\ IF socket = 0 THEN FALSE ELSE socks[socket].status = "reconnecting")
    ~> (/\ SocketConnected
        /\ IF socket = 0 THEN FALSE
           ELSE RegistryTopics \subseteq ServerSubscribed(socks[socket].received))

====
